---- MODULE Spec2Model ----
(***************************************************************************)
(* A model of the P_Init extension (src/src/extension.ts): the decoration  *)
(* provider with its emptiness cache, the file watcher handlers, the color *)
(* resolver and the adapter that writes workbench.colorCustomizations.     *)
(*                                                                         *)
(* Every `await` of the source is a point where other callbacks may run,   *)
(* so an async function is modelled as one action per stretch of code      *)
(* between two awaits.                                                     *)
(***************************************************************************)
EXTENDS Integers, Sequences, FiniteSets, TLC

(***************************************************************************)
(* Program constants.                                                      *)
(* A string the program inspects character by character (a setting's value, *)
(* a theme color id) is the sequence of its characters.                    *)
(***************************************************************************)
INIT_FILENAME == "__init__.py"
DEFAULT_EMPTY_COLOR ==
    <<"#", "7", "0", "7", "0", "7", "0", "9", "9">>
DEFAULT_NON_EMPTY_COLOR ==
    <<"#", "F", "F", "F", "F", "F", "F", "9", "9">>
EMPTY_DECORATION_THEME_ID ==
    <<"p", "i", "n", "i", "t", ".", "d", "e", "c", "o", "r", "a", "t",
    "i", "o", "n", "s", ".", "i", "n", "i", "t", "F", "i", "l", "e", "E",
    "m", "p", "t", "y">>
NON_EMPTY_DECORATION_THEME_ID ==
    <<"p", "i", "n", "i", "t", ".", "d", "e", "c", "o", "r", "a", "t",
    "i", "o", "n", "s", ".", "i", "n", "i", "t", "F", "i", "l", "e">>

(***************************************************************************)
(* Bounds of the model.                                                    *)
(***************************************************************************)
\* provideFileDecoration calls in flight at once (SpecProvider)
MaxQueries == 2
\* provideFileDecoration calls in flight at once (SpecWatcher)
MaxWatcherQueries == 1
\* resolveDecorationThemeColors calls in flight at once (SpecResolver)
MaxPasses == 1
\* hex digits of a value to classify: those of #RRGGBBAA and one more
MaxDigits == 9
\* resolveDecorationThemeColors calls in flight at once (SpecOverlap)
MaxOverlap == 2

(***************************************************************************)
(* File identifiers: uri.fsPath as its sequence of path segments.          *)
(***************************************************************************)
InitFile == <<"pkg", "__init__.py">>
TargetUris == { InitFile, <<"lib", "__init__.py">> }
OtherUris == { <<"pkg", "not_init.py">>, <<"__init__.py", "mod.py">> }
Uris == TargetUris \cup OtherUris

\* path.basename(uri.fsPath): the last segment
basename(uri) == uri[Len(uri)]

\* name !== INIT_FILENAME negated: the file is one the provider decorates
\* (a mutant: any segment of the path carries the name)
isInitFileAnySegment(uri) == \E i \in 1..Len(uri) : uri[i] = INIT_FILENAME
isInitFile(uri) == basename(uri) = INIT_FILENAME

(***************************************************************************)
(* The file system the inspector stats: a size, or MISSING (stat throws).  *)
(***************************************************************************)
MISSING == -1
FileSizes == {0, 1}
FileStates == {MISSING} \cup FileSizes

\* WorkspaceFileStateInspector.isEmpty on a stat that succeeded
statIsEmpty(size) == size = 0

(***************************************************************************)
(* Theme color handles (vscode.ThemeColor, by its id).                     *)
(***************************************************************************)
SymbolicToken ==
    <<"c", "h", "a", "r", "t", "s", ".", "b", "l", "u", "e">>
InitFileColors ==
    { [empty |-> EMPTY_DECORATION_THEME_ID,
       nonEmpty |-> NON_EMPTY_DECORATION_THEME_ID],
      [empty |-> SymbolicToken, nonEmpty |-> SymbolicToken] }

(***************************************************************************)
(* The emptiness cache: a Map<string, boolean>, as a function whose domain *)
(* is the set of keys present.                                             *)
(***************************************************************************)
EmptyMap == [k \in {} |-> FALSE]
mapHas(m, k) == k \in DOMAIN m
mapSet(m, k, v) == [x \in (DOMAIN m) \cup {k} |-> IF x = k THEN v ELSE m[x]]
mapDelete(m, k) == [x \in (DOMAIN m) \ {k} |-> m[x]]

(***************************************************************************)
(* Decorations.                                                            *)
(***************************************************************************)
undefined == [kind |-> "undefined", tooltip |-> "", color |-> <<>>]
EMPTY_TOOLTIP == "Empty __init__.py file"
NON_EMPTY_TOOLTIP == "Non-empty __init__.py file"

\* (a mutant: the two handles swapped)
FileDecorationSwapped(isEmpty, cols) ==
    [kind |-> "decoration",
     tooltip |-> IF isEmpty THEN EMPTY_TOOLTIP ELSE NON_EMPTY_TOOLTIP,
     color |-> IF isEmpty THEN cols.nonEmpty ELSE cols.empty]
\* provideFileDecoration, after the await: color, tooltip, the decoration
FileDecoration(isEmpty, cols) ==
    [kind |-> "decoration",
     tooltip |-> IF isEmpty THEN EMPTY_TOOLTIP ELSE NON_EMPTY_TOOLTIP,
     color |-> IF isEmpty THEN cols.empty ELSE cols.nonEmpty]

(***************************************************************************)
(* Color settings: config.get<string>(settingName).                        *)
(***************************************************************************)
\* the value of a setting that is not configured
undefinedValue == <<"undefined">>
Whitespace == {" ", "\t", "\n"}
HexDigits == {"0", "1", "2", "3", "4", "5", "6", "7", "8", "9",
              "a", "b", "c", "d", "e", "f", "A", "B", "C", "D", "E", "F"}

\* String.prototype.trim
RECURSIVE trimStart(_)
trimStart(s) ==
    IF s # <<>> /\ Head(s) \in Whitespace THEN trimStart(Tail(s)) ELSE s
RECURSIVE trimEnd(_)
trimEnd(s) ==
    IF s # <<>> /\ s[Len(s)] \in Whitespace
    THEN trimEnd(SubSeq(s, 1, Len(s) - 1))
    ELSE s
trim(s) == trimEnd(trimStart(s))

\* (a mutant: the configured value used as it is typed)
getConfiguredColorRaw(value, fallback) ==
    IF value = undefinedValue \/ value = <<>> \/ trim(value) = <<>>
    THEN fallback
    ELSE value
\* getConfiguredColor: (value && value.trim()) || fallback
getConfiguredColor(value, fallback) ==
    IF value = undefinedValue \/ value = <<>> \/ trim(value) = <<>>
    THEN fallback
    ELSE trim(value)

\* isHexColor: /^#([0-9a-f]{6}|[0-9a-f]{8})$/i
isHexColor(value) ==
    /\ Len(value) \in {7, 9}
    /\ value[1] = "#"
    /\ \A i \in 2..Len(value) : value[i] \in HexDigits

(***************************************************************************)
(* The workbench.colorCustomizations section: undefined, or an object.     *)
(* The section is one value: config.get returns what the last applied      *)
(* config.update wrote, whatever the target of the update.  The scopes of  *)
(* the host's settings (user, workspace) are not told apart.               *)
(***************************************************************************)
undefinedSection == [present |-> FALSE, entries |-> EmptyMap]
Section(m) == [present |-> TRUE, entries |-> m]

\* config.get<Record<string, unknown>>('workbench.colorCustomizations') || {}
getCustomizations(section) ==
    IF section.present THEN section.entries ELSE EmptyMap

\* workspaceFolders when no workspace is open
undefinedFolders == -1
\* (a mutant: the workspace target whatever the folders)
getColorCustomizationTargetWorkspace(folders) == "Workspace"
\* getColorCustomizationTarget: `workspaceFolders?.length ?? 0 > 0` is
\* `workspaceFolders?.length ?? (0 > 0)`, tested for truthiness
getColorCustomizationTarget(folders) ==
    LET hasWorkspace == IF folders = undefinedFolders
                        THEN 0 > 0
                        ELSE folders # 0
    IN IF hasWorkspace THEN "Workspace" ELSE "Global"

\* a config.update call: the value and the target it is given
NoUpdate == [called |-> FALSE, value |-> undefinedSection, target |-> "none"]
Update(value, target) == [called |-> TRUE, value |-> value, target |-> target]

\* (a mutant: the section written whatever it holds)
applyColorCustomizationAlways(section, themeId, hexColor, folders) ==
    Update(Section(mapSet(getCustomizations(section), themeId, hexColor)),
           getColorCustomizationTarget(folders))
\* (a mutant: only the dedicated key written back)
applyColorCustomizationOwnKeyOnly(section, themeId, hexColor, folders) ==
    LET customizations == getCustomizations(section)
    IN IF mapHas(customizations, themeId)
          /\ customizations[themeId] = hexColor
       THEN NoUpdate
       ELSE Update(Section(mapSet(EmptyMap, themeId, hexColor)),
                   getColorCustomizationTarget(folders))
\* applyColorCustomization, up to its await: the update it calls, if any
applyColorCustomization(section, themeId, hexColor, folders) ==
    LET customizations == getCustomizations(section)
    IN IF mapHas(customizations, themeId)
          /\ customizations[themeId] = hexColor
       THEN NoUpdate
       ELSE Update(Section(mapSet(customizations, themeId, hexColor)),
                   getColorCustomizationTarget(folders))

\* (a mutant: the section written back with the key still in it)
removeColorCustomizationKeepKey(section, themeId, folders) ==
    LET customizations == getCustomizations(section)
    IN IF ~mapHas(customizations, themeId)
       THEN NoUpdate
       ELSE Update(Section(customizations),
                   getColorCustomizationTarget(folders))
\* (a mutant: a section left without keys written back as an empty object)
removeColorCustomizationEmptyObject(section, themeId, folders) ==
    LET customizations == getCustomizations(section)
    IN IF ~mapHas(customizations, themeId)
       THEN NoUpdate
       ELSE Update(Section(mapDelete(customizations, themeId)),
                   getColorCustomizationTarget(folders))
\* removeColorCustomizationIfPresent, up to its await
removeColorCustomizationIfPresent(section, themeId, folders) ==
    LET customizations == getCustomizations(section)
        rest == mapDelete(customizations, themeId)
    IN IF ~mapHas(customizations, themeId)
       THEN NoUpdate
       ELSE Update(IF DOMAIN rest # {} THEN Section(rest)
                                       ELSE undefinedSection,
                   getColorCustomizationTarget(folders))

\* resolveColorFromSetting, up to its await: the value it classifies, the
\* update it calls and the ThemeColor it returns once the update is done
resolveColorFromSetting(value, section, themeId, fallback, folders) ==
    LET colorSetting == getConfiguredColor(value, fallback)
    IN IF isHexColor(colorSetting)
       THEN [colorSetting |-> colorSetting,
             update |-> applyColorCustomization(section, themeId,
                                                colorSetting, folders),
             color |-> themeId]
       ELSE [colorSetting |-> colorSetting,
             update |-> removeColorCustomizationIfPresent(section, themeId,
                                                          folders),
             color |-> colorSetting]

VARIABLES
    provider,   \* the InitFileDecorationProvider: colors, emptinessCache
    fs,         \* the file system: uri -> size or MISSING
    events,     \* the files with a watcher event not yet delivered
    queries,    \* the provideFileDecoration calls in flight: slot -> record
    stale,      \* history: the cache keys whose value was read before an
                \* invalidation that has completed since
    emitted,    \* what the emitter fired during the last step, in order
    returned,   \* the provideFileDecoration call that returned in the last step
    last,       \* history: the handler the last step ran
    configured, \* history: the colors given to the constructor or to the
                \* last setColors call
    extension,  \* "inactive", "activating" (activate awaits the colors),
                \* "active" (provider registered, listeners installed) or
                \* "failed" (activate rejected)
    settings,   \* the two p-init color settings: name -> configured value
    colorCustomizations,  \* the workbench.colorCustomizations section
    workspaceFolders,     \* vscode.workspace.workspaceFolders (its length)
    passes,     \* the resolveDecorationThemeColors calls in flight
    updates,    \* the config.update calls the host has not applied yet
    pendingChange,  \* a change of a p-init setting not yet notified
    resolved,   \* history: per setting, the last completed resolution whose
                \* store entry nothing has changed since
    watching,   \* the file-system watcher was created, its handlers installed
    sectionChange   \* a change of workbench.colorCustomizations not yet
                    \* notified

providerVars == <<provider, fs, events, queries, stale, emitted, returned,
                  last, configured>>
resolverVars == <<extension, settings, colorCustomizations, workspaceFolders,
                  passes, updates, pendingChange, resolved, watching,
                  sectionChange>>
vars == <<provider, fs, events, queries, stale, emitted, returned, last,
          configured, extension, settings, colorCustomizations,
          workspaceFolders, passes, updates, pendingChange, resolved,
          watching, sectionChange>>

(***************************************************************************)
(* The provider's methods, as functions of the provider's state p and of   *)
(* the list em of broadcasts fired so far in the running handler.  A       *)
(* broadcast records what a listener called by emitter.fire observes.      *)
(***************************************************************************)
ProviderState(p, em) == [p |-> p, em |-> em]

\* refresh(): this.emitter.fire(undefined)
refresh(s) ==
    [s EXCEPT !.em = Append(s.em, [arg |-> "undefined",
                                   cache |-> s.p.emptinessCache,
                                   colors |-> s.p.colors])]

\* invalidateCache(uri)
invalidateCache(s, uri) ==
    [s EXCEPT !.p.emptinessCache = mapDelete(s.p.emptinessCache, uri)]

\* invalidateCache()
invalidateCacheAll(s) == [s EXCEPT !.p.emptinessCache = EmptyMap]

\* (a mutant: only the empty handle replaced)
setColorsEmptyOnly(s, cols) ==
    refresh(invalidateCacheAll([s EXCEPT !.p.colors.empty = cols.empty]))
\* setColors(colors)
setColors(s, cols) ==
    refresh(invalidateCacheAll([s EXCEPT !.p.colors = cols]))

\* (a mutant: the broadcast before the invalidation)
onWatcherEventRefreshFirst(s, uri) == invalidateCache(refresh(s), uri)
\* the body the three watcher handlers share
onWatcherEvent(s, uri) == refresh(invalidateCache(s, uri))

(***************************************************************************)
(* A provideFileDecoration call.  pc is where the call stands:             *)
(*   idle      the slot holds no call                                      *)
(*   stat      isFileEmpty awaits inspector.isEmpty, stat not yet done     *)
(*   statDone  the stat has read the file, its result is not yet delivered *)
(*   resolved  isFileEmpty has returned, provideFileDecoration awaits it   *)
(* A call that returns frees its slot and is reported in `returned`.       *)
(***************************************************************************)
IdleQuery ==
    [pc |-> "idle", uri |-> <<>>, size |-> MISSING, isEmpty |-> FALSE,
     failed |-> FALSE, inspected |-> FALSE,
     readBeforeInvalidation |-> FALSE,
     cancelled |-> FALSE]

NoColors == [empty |-> <<>>, nonEmpty |-> <<>>]
NoHandler == [act |-> "none", uri |-> <<>>, colors |-> NoColors]
NoReturn == [call |-> IdleQuery, result |-> undefined]

\* the state after construction, with `slots` calls at most in flight and
\* `files` the init files of the workspace
InitOn(slots, files) ==
    /\ provider \in [colors : InitFileColors, emptinessCache : {EmptyMap}]
    /\ fs \in [Uris -> FileStates]
    /\ \A uri \in OtherUris : fs[uri] = 1
    /\ \A uri \in TargetUris \ files : fs[uri] = MISSING
    /\ events = {}
    /\ queries = [q \in 1..slots |-> IdleQuery]
    /\ stale = {}
    /\ emitted = <<>>
    /\ returned = NoReturn
    /\ last = NoHandler
    /\ configured = provider.colors
    /\ extension = "active"
    /\ settings = [n \in {"emptyInitFileColor", "nonEmptyInitFileColor"} |->
                      undefinedValue]
    /\ colorCustomizations = undefinedSection
    /\ workspaceFolders = undefinedFolders
    /\ passes = <<>>
    /\ updates = <<>>
    /\ pendingChange = FALSE
    /\ resolved = <<>>
    /\ watching = TRUE
    /\ sectionChange = FALSE

(***************************************************************************)
(* History kept with the handlers: an invalidation of `uris` marks the     *)
(* calls whose stat has read the file but not yet delivered its result.    *)
(***************************************************************************)
markInvalidated(uris) ==
    [q \in DOMAIN queries |->
        IF queries[q].pc = "statDone" /\ queries[q].uri \in uris
        THEN [queries[q] EXCEPT !.readBeforeInvalidation = TRUE]
        ELSE queries[q]]

\* provideFileDecoration(uri), up to its await; isFileEmpty up to its await
provideFileDecoration(q, uri) ==
    /\ extension = "active"
    /\ queries[q].pc = "idle"
    /\ \A r \in DOMAIN queries : r < q => queries[r].pc # "idle"
    /\ IF ~isInitFile(uri)
       THEN /\ returned' = [call |-> [IdleQuery EXCEPT !.uri = uri],
                            result |-> undefined]
            /\ UNCHANGED queries
       ELSE /\ returned' = NoReturn
            /\ queries' = [queries EXCEPT ![q] =
                 IF mapHas(provider.emptinessCache, uri)
                 THEN [@ EXCEPT !.pc = "resolved", !.uri = uri,
                                !.isEmpty = provider.emptinessCache[uri]]
                 ELSE [@ EXCEPT !.pc = "stat", !.uri = uri,
                                !.inspected = TRUE]]
    /\ emitted' = <<>>
    /\ last' = NoHandler
    /\ UNCHANGED <<provider, fs, events, stale, configured>>
    /\ UNCHANGED resolverVars

\* WorkspaceFileStateInspector.isEmpty: vscode.workspace.fs.stat reads the file
inspectorIsEmpty(q) ==
    /\ queries[q].pc = "stat"
    /\ queries' = [queries EXCEPT ![q] =
                     [@ EXCEPT !.pc = "statDone", !.size = fs[queries[q].uri]]]
    /\ emitted' = <<>>
    /\ returned' = NoReturn
    /\ last' = NoHandler
    /\ UNCHANGED <<provider, fs, events, stale, configured>>
    /\ UNCHANGED resolverVars

\* (a mutant: a failed inspection cached as non-empty)
isFileEmptySettleCacheFailure(p, uri, size) ==
    [p EXCEPT !.emptinessCache = mapSet(@, uri, statIsEmpty(size))]
\* (a mutant: the result of the inspection is not stored)
isFileEmptySettleNoStore(p, uri, size) ==
    [p EXCEPT !.emptinessCache = mapDelete(@, uri)]
\* isFileEmpty after `await this.inspector.isEmpty(uri)`: the cache it leaves
isFileEmptySettle(p, uri, size) ==
    IF size # MISSING
    THEN [p EXCEPT !.emptinessCache = mapSet(@, uri, statIsEmpty(size))]
    ELSE [p EXCEPT !.emptinessCache = mapDelete(@, uri)]

\* isFileEmpty resumes with the inspector's answer (or its error) and returns
isFileEmptyResume(q) ==
    /\ queries[q].pc = "statDone"
    /\ LET uri == queries[q].uri
           size == queries[q].size
       IN /\ provider' = isFileEmptySettle(provider, uri, size)
          /\ queries' = [queries EXCEPT ![q] =
                [@ EXCEPT !.pc = "resolved",
                          !.isEmpty = size # MISSING /\ statIsEmpty(size),
                          !.failed = size = MISSING,
                          !.readBeforeInvalidation = FALSE]]
          /\ stale' = IF size # MISSING /\ queries[q].readBeforeInvalidation
                      THEN stale \cup {uri}
                      ELSE stale \ {uri}
    /\ emitted' = <<>>
    /\ returned' = NoReturn
    /\ last' = NoHandler
    /\ UNCHANGED <<fs, events, configured>>
    /\ UNCHANGED resolverVars

\* provideFileDecoration resumes after `await this.isFileEmpty(uri)`
provideFileDecorationReturn(q) ==
    /\ queries[q].pc = "resolved"
    /\ returned' = [call |-> queries[q],
                    result |-> FileDecoration(queries[q].isEmpty,
                                              provider.colors)]
    /\ queries' = [queries EXCEPT ![q] = IdleQuery]
    /\ emitted' = <<>>
    /\ last' = NoHandler
    /\ UNCHANGED <<provider, fs, events, stale, configured>>
    /\ UNCHANGED resolverVars

\* the host cancels a call in flight: it signals the CancellationToken it
\* passed as second argument, which provideFileDecoration(uri) does not take
cancellationRequested(q) ==
    /\ queries[q].pc \in {"stat", "statDone", "resolved"}
    /\ ~queries[q].cancelled
    /\ queries' = [queries EXCEPT ![q] = [@ EXCEPT !.cancelled = TRUE]]
    /\ emitted' = <<>>
    /\ returned' = NoReturn
    /\ last' = NoHandler
    /\ UNCHANGED <<provider, fs, events, stale, configured>>
    /\ UNCHANGED resolverVars

\* a file matching the watcher's pattern '**/__init__.py' is created,
\* rewritten or deleted; the watcher, if there is one, queues an event for it
fileChanged(uri, size) ==
    /\ size # fs[uri]
    /\ fs' = [fs EXCEPT ![uri] = size]
    /\ events' = IF watching THEN events \cup {uri} ELSE events
    /\ emitted' = <<>>
    /\ returned' = NoReturn
    /\ last' = NoHandler
    /\ UNCHANGED <<provider, queries, stale, configured>>
    /\ UNCHANGED resolverVars

\* a watcher handler runs: provider.invalidateCache(uri); provider.refresh()
watcherHandler(uri) ==
    /\ uri \in events
    /\ LET s == onWatcherEvent(ProviderState(provider, <<>>), uri)
       IN /\ provider' = s.p
          /\ emitted' = s.em
    /\ events' = events \ {uri}
    /\ queries' = markInvalidated({uri})
    /\ stale' = stale \ {uri}
    /\ returned' = NoReturn
    /\ last' = [act |-> "watcher", uri |-> uri, colors |-> NoColors]
    /\ UNCHANGED <<fs, configured>>
    /\ UNCHANGED resolverVars

\* watcher.onDidCreate(uri => ...)
onDidCreate(uri) == watcherHandler(uri)
\* watcher.onDidChange(uri => ...)
onDidChange(uri) == watcherHandler(uri)
\* watcher.onDidDelete(uri => ...)
onDidDelete(uri) == watcherHandler(uri)

\* the onDidChangeConfiguration handler, after its await: provider.setColors
configurationChangedSetColors(cols) ==
    /\ LET s == setColors(ProviderState(provider, <<>>), cols)
       IN /\ provider' = s.p
          /\ emitted' = s.em
    /\ queries' = markInvalidated(Uris)
    /\ stale' = {}
    /\ returned' = NoReturn
    /\ last' = [act |-> "setColors", uri |-> <<>>, colors |-> cols]
    /\ configured' = cols
    /\ UNCHANGED <<fs, events>>
    /\ UNCHANGED resolverVars

NextOn(files, others) ==
    \/ \E q \in DOMAIN queries, uri \in files \cup others :
          provideFileDecoration(q, uri)
    \/ \E q \in DOMAIN queries : inspectorIsEmpty(q)
    \/ \E q \in DOMAIN queries : isFileEmptyResume(q)
    \/ \E q \in DOMAIN queries : provideFileDecorationReturn(q)
    \/ \E uri \in files, size \in FileStates : fileChanged(uri, size)
    \/ \E uri \in files : onDidCreate(uri)
    \/ \E uri \in files : onDidChange(uri)
    \/ \E uri \in files : onDidDelete(uri)

(***************************************************************************)
(* SpecProvider: one init file and the files of other names, MaxQueries    *)
(* calls in flight.                                                        *)
(* SpecWatcher: two init files, MaxWatcherQueries calls in flight, the     *)
(* colors left as they are.                                                *)
(***************************************************************************)
InitProvider == InitOn(MaxQueries, {InitFile})
NextProvider ==
    \/ NextOn({InitFile}, OtherUris)
    \/ \E cols \in InitFileColors : configurationChangedSetColors(cols)
SpecProvider == InitProvider /\ [][NextProvider]_vars

\* SpecCancellation: the calls for one init file, which the host may cancel
InitCancellation == InitOn(MaxQueries, {InitFile})
NextCancellation ==
    \/ NextOn({InitFile}, {})
    \/ \E q \in DOMAIN queries : cancellationRequested(q)
SpecCancellation == InitCancellation /\ [][NextCancellation]_vars

InitWatcher ==
    /\ InitOn(MaxWatcherQueries, TargetUris)
    /\ provider.colors.empty = EMPTY_DECORATION_THEME_ID
NextWatcher == NextOn(TargetUris, {})
SpecWatcher == InitWatcher /\ [][NextWatcher]_vars

(***************************************************************************)
(* Color resolution.  A resolveDecorationThemeColors call resolves the     *)
(* empty color, then the non-empty color.  pc is where the call stands:    *)
(*   idle            the slot holds no call                                *)
(*   emptyUpdate     the empty color awaits its config.update              *)
(*   nonEmpty        the empty color is resolved, the non-empty one next   *)
(*   nonEmptyUpdate  the non-empty color awaits its config.update          *)
(*   resolved        both colors are resolved, the caller awaits them      *)
(* config.update calls are applied by the host in the order they are made. *)
(***************************************************************************)
EMPTY_COLOR_SETTING_NAME == "emptyInitFileColor"
NON_EMPTY_COLOR_SETTING_NAME == "nonEmptyInitFileColor"
SettingNames == {EMPTY_COLOR_SETTING_NAME, NON_EMPTY_COLOR_SETTING_NAME}
EMPTY_COLOR_SETTING_KEY == "p-init.emptyInitFileColor"
NON_EMPTY_COLOR_SETTING_KEY == "p-init.nonEmptyInitFileColor"
\* the key the store adapter reads and writes
COLOR_CUSTOMIZATIONS_KEY == "workbench.colorCustomizations"

\* event.affectsConfiguration(section), for the event of a change of the
\* setting `changed`
affectsConfiguration(changed, section) == changed = section
\* (a mutant: the handler reacts to every configuration change)
affectsAnyConfiguration(changed) == TRUE
\* the condition of the onDidChangeConfiguration handler
affectsColorSettings(changed) ==
    \/ affectsConfiguration(changed, EMPTY_COLOR_SETTING_KEY)
    \/ affectsConfiguration(changed, NON_EMPTY_COLOR_SETTING_KEY)

\* the arguments of the two resolveColorFromSetting calls
EmptyStage ==
    [name |-> EMPTY_COLOR_SETTING_NAME,
     themeId |-> EMPTY_DECORATION_THEME_ID,
     fallback |-> DEFAULT_EMPTY_COLOR]
NonEmptyStage ==
    [name |-> NON_EMPTY_COLOR_SETTING_NAME,
     themeId |-> NON_EMPTY_DECORATION_THEME_ID,
     fallback |-> DEFAULT_NON_EMPTY_COLOR]
themeIdOf(name) ==
    IF name = EMPTY_COLOR_SETTING_NAME THEN EMPTY_DECORATION_THEME_ID
                                       ELSE NON_EMPTY_DECORATION_THEME_ID

\* (history: `before` is what stood in `resolved` for the setting when the
\* running resolveColorFromSetting call read the section)
IdlePass ==
    [pc |-> "idle", activation |-> FALSE, colorSetting |-> <<>>,
     color |-> <<>>, emptyColor |-> <<>>, nonEmptyColor |-> <<>>,
     before |-> <<>>]
\* history: a completed resolveColorFromSetting call: the value it
\* classified, the ThemeColor it returned, whether it called config.update,
\* and the value and ThemeColor of the resolution that stood before it
NoResolution ==
    [done |-> FALSE, value |-> <<>>, color |-> <<>>, called |-> FALSE,
     before |-> <<>>]
Resolution(pass, called) ==
    [done |-> TRUE, value |-> pass.colorSetting, color |-> pass.color,
     called |-> called, before |-> pass.before]

\* the entry of the section under a key: <<value>>, or <<>> when absent
entryOf(section, key) ==
    IF mapHas(getCustomizations(section), key)
    THEN <<getCustomizations(section)[key]>>
    ELSE <<>>

\* history: the resolutions that still stand once the section is `section`
\* and the resolution of `name` (if any) has completed as `resolution`
resolvedAfter(section, name, resolution) ==
    [n \in SettingNames |->
        IF n = name THEN resolution
        ELSE IF entryOf(section, themeIdOf(n))
                  = entryOf(colorCustomizations, themeIdOf(n))
             THEN resolved[n]
             ELSE NoResolution]

\* the pass once the color of a stage is resolved
stageResolved(pass, stage, color) ==
    IF stage.name = EMPTY_COLOR_SETTING_NAME
    THEN [pass EXCEPT !.pc = "nonEmpty", !.emptyColor = color]
    ELSE [pass EXCEPT !.pc = "resolved", !.nonEmptyColor = color]

\* resolveColorFromSetting for a stage, run by the call in slot p whose
\* record is `pass`, up to its `await config.update` or to its return
startStage(p, pass, stage) ==
    LET r == resolveColorFromSetting(settings[stage.name],
                                     colorCustomizations, stage.themeId,
                                     stage.fallback, workspaceFolders)
        running == [pass EXCEPT !.colorSetting = r.colorSetting,
                                !.color = r.color,
                                !.before =
                                    IF resolved[stage.name].done
                                    THEN <<resolved[stage.name].value,
                                           resolved[stage.name].color>>
                                    ELSE <<>>]
    IN IF r.update.called
       THEN /\ passes' = [passes EXCEPT ![p] =
                 [running EXCEPT !.pc = IF stage.name = EMPTY_COLOR_SETTING_NAME
                                        THEN "emptyUpdate"
                                        ELSE "nonEmptyUpdate"]]
            /\ updates' = Append(updates, [pass |-> p,
                                           name |-> stage.name,
                                           value |-> r.update.value,
                                           target |-> r.update.target,
                                           read |-> colorCustomizations])
            /\ UNCHANGED resolved
       ELSE /\ passes' = [passes EXCEPT ![p] =
                              stageResolved(running, stage, r.color)]
            /\ resolved' = resolvedAfter(colorCustomizations, stage.name,
                               Resolution(running, FALSE))
            /\ UNCHANGED updates

\* a step of the resolver leaves the provider alone
noProviderStep ==
    /\ emitted' = <<>>
    /\ returned' = NoReturn
    /\ last' = NoHandler
    /\ UNCHANGED <<provider, fs, events, queries, stale, configured>>

\* activate(), up to the first await of resolveDecorationThemeColors
activate ==
    /\ extension = "inactive"
    /\ extension' = "activating"
    /\ startStage(1, [IdlePass EXCEPT !.activation = TRUE], EmptyStage)
    /\ noProviderStep
    /\ UNCHANGED <<settings, colorCustomizations, workspaceFolders,
                   pendingChange, watching, sectionChange>>

\* the onDidChangeConfiguration handler, for an event that affects one of
\* the two setting keys, up to the first await
onDidChangeConfiguration(p) ==
    /\ extension = "active"
    /\ pendingChange
    /\ passes[p].pc = "idle"
    /\ \A r \in DOMAIN passes : r < p => passes[r].pc # "idle"
    /\ pendingChange' = FALSE
    /\ startStage(p, IdlePass, EmptyStage)
    /\ noProviderStep
    /\ UNCHANGED <<extension, settings, colorCustomizations, workspaceFolders,
                   watching, sectionChange>>

\* the onDidChangeConfiguration handler, for the event of a change of
\* workbench.colorCustomizations
onDidChangeConfigurationOther ==
    /\ extension = "active"
    /\ sectionChange
    /\ sectionChange' = FALSE
    /\ IF affectsColorSettings(COLOR_CUSTOMIZATIONS_KEY)
       THEN \E p \in DOMAIN passes :
               /\ passes[p].pc = "idle"
               /\ \A r \in DOMAIN passes : r < p => passes[r].pc # "idle"
               /\ startStage(p, IdlePass, EmptyStage)
       ELSE UNCHANGED <<passes, updates, resolved>>
    /\ noProviderStep
    /\ UNCHANGED <<extension, settings, colorCustomizations, workspaceFolders,
                   pendingChange, watching>>

\* resolveDecorationThemeColors resumes with the empty color
resolveNonEmptyColor(p) ==
    /\ passes[p].pc = "nonEmpty"
    /\ startStage(p, passes[p], NonEmptyStage)
    /\ noProviderStep
    /\ UNCHANGED <<extension, settings, colorCustomizations, workspaceFolders,
                   pendingChange, watching, sectionChange>>

\* the host applies the oldest config.update call and notifies the listeners
\* installed then of the change it makes; the call that awaits it resumes and
\* resolveColorFromSetting returns its ThemeColor
configUpdateApplied ==
    /\ updates # <<>>
    /\ LET w == Head(updates)
           pass == passes[w.pass]
           stage == IF w.name = EMPTY_COLOR_SETTING_NAME THEN EmptyStage
                                                         ELSE NonEmptyStage
       IN /\ colorCustomizations' = w.value
          /\ passes' = [passes EXCEPT ![w.pass] =
                            stageResolved(pass, stage, pass.color)]
          /\ resolved' = resolvedAfter(w.value, w.name,
                             Resolution(pass, TRUE))
          /\ sectionChange' = (\/ sectionChange
                                \/ /\ extension = "active"
                                   /\ w.value # colorCustomizations)
    /\ updates' = Tail(updates)
    /\ noProviderStep
    /\ UNCHANGED <<extension, settings, workspaceFolders, pendingChange,
                   watching>>

\* the host rejects the oldest config.update call: the section stays as it
\* is, and the rejection leaves resolveColorFromSetting and
\* resolveDecorationThemeColors, then activate() or the handler that awaits
\* the colors
configUpdateRejected ==
    /\ updates # <<>>
    /\ LET w == Head(updates)
       IN /\ passes' = [passes EXCEPT ![w.pass] = IdlePass]
          /\ extension' = IF passes[w.pass].activation THEN "failed"
                                                       ELSE extension
    /\ updates' = Tail(updates)
    /\ noProviderStep
    /\ UNCHANGED <<settings, colorCustomizations, workspaceFolders,
                   pendingChange, resolved, watching, sectionChange>>

\* (a mutant: the creation of the watcher outside the try block)
activateResumesWatcherRequired(p, created) ==
    /\ passes[p].pc = "resolved"
    /\ passes[p].activation
    /\ extension' = IF created THEN "active" ELSE "failed"
    /\ provider' = [colors |-> [empty |-> passes[p].emptyColor,
                                nonEmpty |-> passes[p].nonEmptyColor],
                    emptinessCache |-> EmptyMap]
    /\ configured' = provider'.colors
    /\ passes' = [passes EXCEPT ![p] = IdlePass]
    /\ emitted' = <<>>
    /\ returned' = NoReturn
    /\ last' = NoHandler
    /\ watching' = created
    /\ UNCHANGED <<fs, events, queries, stale, settings, colorCustomizations,
                   workspaceFolders, updates, pendingChange, resolved,
                   sectionChange>>
\* activate() resumes with the colors: the provider is constructed and
\* registered, the watcher is created (`created`) or its creation throws,
\* the configuration listener is installed
activateResumes(p, created) ==
    /\ passes[p].pc = "resolved"
    /\ passes[p].activation
    /\ extension' = "active"
    /\ provider' = [colors |-> [empty |-> passes[p].emptyColor,
                                nonEmpty |-> passes[p].nonEmptyColor],
                    emptinessCache |-> EmptyMap]
    /\ configured' = [empty |-> passes[p].emptyColor,
                      nonEmpty |-> passes[p].nonEmptyColor]
    /\ passes' = [passes EXCEPT ![p] = IdlePass]
    /\ emitted' = <<>>
    /\ returned' = NoReturn
    /\ last' = NoHandler
    /\ watching' = created
    /\ UNCHANGED <<fs, events, queries, stale, settings, colorCustomizations,
                   workspaceFolders, updates, pendingChange, resolved,
                   sectionChange>>

\* activate() resumes and createFileSystemWatcher returns a watcher
activateRegisters(p) == activateResumes(p, TRUE)
\* activate() resumes and createFileSystemWatcher throws
activateWatcherSetupFailed(p) == activateResumes(p, FALSE)

\* the onDidChangeConfiguration handler resumes with the colors
onDidChangeConfigurationResumes(p) ==
    /\ passes[p].pc = "resolved"
    /\ ~passes[p].activation
    /\ LET cols == [empty |-> passes[p].emptyColor,
                    nonEmpty |-> passes[p].nonEmptyColor]
           s == setColors(ProviderState(provider, <<>>), cols)
       IN /\ provider' = s.p
          /\ emitted' = s.em
          /\ last' = [act |-> "setColors", uri |-> <<>>, colors |-> cols]
          /\ configured' = cols
    /\ queries' = markInvalidated(Uris)
    /\ stale' = {}
    /\ returned' = NoReturn
    /\ UNCHANGED <<fs, events>>
    /\ passes' = [passes EXCEPT ![p] = IdlePass]
    /\ UNCHANGED <<extension, settings, colorCustomizations, workspaceFolders,
                   updates, pendingChange, resolved, watching, sectionChange>>

\* the user gives a color setting another value; the host notifies the
\* listeners installed then
userChangesSetting(name, value) ==
    /\ value # settings[name]
    /\ ~pendingChange
    /\ settings' = [settings EXCEPT ![name] = value]
    /\ pendingChange' = (extension = "active")
    /\ noProviderStep
    /\ UNCHANGED <<extension, colorCustomizations, workspaceFolders, passes,
                   updates, resolved, watching, sectionChange>>

\* another consumer of the section sets a token of its own
otherConsumerWrites(token, value) ==
    /\ entryOf(colorCustomizations, token) # <<value>>
    /\ colorCustomizations' =
           Section(mapSet(getCustomizations(colorCustomizations), token, value))
    /\ sectionChange' = (sectionChange \/ extension = "active")
    /\ noProviderStep
    /\ UNCHANGED <<extension, settings, workspaceFolders, passes, updates,
                   pendingChange, resolved, watching>>

\* a workspace folder is opened or closed
workspaceFoldersChanged(folders) ==
    /\ folders # workspaceFolders
    /\ workspaceFolders' = folders
    /\ noProviderStep
    /\ UNCHANGED <<extension, settings, colorCustomizations, passes, updates,
                   pendingChange, resolved, watching, sectionChange>>

(***************************************************************************)
(* The values the settings and the section take in the model.              *)
(***************************************************************************)
Literal ==
    <<"#", "a", "B", "c", "1", "2", "3">>
OtherToken ==
    <<"t", "a", "b", ".", "b", "o", "r", "d", "e", "r">>
OtherColors == { <<"#", "0", "0", "0">>, <<"#", "f", "f", "f">> }
OtherTokens == {OtherToken}

\* the values the user gives to a setting
SettingValues(name) ==
    IF name = EMPTY_COLOR_SETTING_NAME
    THEN {undefinedValue, Literal, SymbolicToken}
    ELSE {undefinedValue, SymbolicToken}

\* the section the extension finds when it is activated
InitSections ==
    { undefinedSection,
      Section(mapSet(mapSet(EmptyMap, EMPTY_DECORATION_THEME_ID, Literal),
                     OtherToken, <<"#", "0", "0", "0">>)) }
Folders == {undefinedFolders, 0, 1}

\* values to classify: # or not, then up to MaxDigits digits of which one
\* may be no hex digit, between whitespace or not; tokens; no value
HexPattern == <<"a", "B", "0", "9", "f", "F", "3", "c", "D", "7">>
digits(k) == [i \in 1..k |-> HexPattern[((i - 1) % Len(HexPattern)) + 1]]
Bodies ==
    UNION { { hash \o [digits(k) EXCEPT ![j] = "g"],
              hash \o digits(k) } :
            hash \in {<<"#">>, <<>>}, k \in 0..MaxDigits, j \in 1..MaxDigits }
Pads == { <<>>, <<" ">>, <<"\t", " ">>, <<"\n">> }
RawValues ==
    {undefinedValue}
    \cup { l \o b \o r : l \in Pads, r \in Pads,
           b \in Bodies \cup {SymbolicToken, <<"a", " ", "b">>} }

\* the state before activation, InitFile being of one of `sizes`
InitExtension(slots, emptyValues, sections, folders, sizes) ==
    /\ provider = [colors |-> NoColors, emptinessCache |-> EmptyMap]
    /\ fs \in [Uris -> FileStates]
    /\ \A uri \in OtherUris : fs[uri] = 1
    /\ \A uri \in TargetUris \ {InitFile} : fs[uri] = MISSING
    /\ fs[InitFile] \in sizes
    /\ events = {}
    /\ queries = [q \in 1..1 |-> IdleQuery]
    /\ stale = {}
    /\ emitted = <<>>
    /\ returned = NoReturn
    /\ last = NoHandler
    /\ configured = NoColors
    /\ extension = "inactive"
    /\ settings \in [SettingNames -> emptyValues \cup {undefinedValue}]
    /\ settings[NON_EMPTY_COLOR_SETTING_NAME] = undefinedValue
    /\ colorCustomizations \in sections
    /\ workspaceFolders \in folders
    /\ passes = [p \in 1..slots |-> IdlePass]
    /\ updates = <<>>
    /\ pendingChange = FALSE
    /\ resolved = [n \in SettingNames |-> NoResolution]
    /\ watching = FALSE
    /\ sectionChange = FALSE

InitResolverOn(slots, emptyValues, sections, folders) ==
    InitExtension(slots, emptyValues, sections, folders, {MISSING})

(***************************************************************************)
(* SpecResolver: activation, then the settings, the section and the        *)
(* folders change while MaxPasses handler calls at most are in flight.     *)
(* SpecClassify: activation on each of RawValues as the empty color.       *)
(***************************************************************************)
InitResolver ==
    InitResolverOn(MaxPasses, {undefinedValue}, InitSections,
                   {undefinedFolders})
NextResolver ==
    \/ activate
    \/ \E p \in DOMAIN passes : onDidChangeConfiguration(p)
    \/ \E p \in DOMAIN passes : resolveNonEmptyColor(p)
    \/ configUpdateApplied
    \/ \E p \in DOMAIN passes : activateRegisters(p)
    \/ \E p \in DOMAIN passes : onDidChangeConfigurationResumes(p)
    \/ \E name \in SettingNames :
          \E value \in SettingValues(name) : userChangesSetting(name, value)
    \/ \E token \in OtherTokens, value \in OtherColors :
          otherConsumerWrites(token, value)
    \/ \E folders \in Folders : workspaceFoldersChanged(folders)
    \/ onDidChangeConfigurationOther
SpecResolver == InitResolver /\ [][NextResolver]_vars

InitClassify ==
    InitResolverOn(1, RawValues, {undefinedSection}, {undefinedFolders})
NextClassify ==
    \/ activate
    \/ \E p \in DOMAIN passes : resolveNonEmptyColor(p)
    \/ configUpdateApplied
    \/ \E p \in DOMAIN passes : activateRegisters(p)
SpecClassify == InitClassify /\ [][NextClassify]_vars

(***************************************************************************)
(* SpecActivation: activation and MaxPasses handler calls at most, where   *)
(* the host may reject a config.update call and the creation of the        *)
(* watcher may throw, with the decoration queries for one init file.       *)
(***************************************************************************)
InitActivation ==
    InitExtension(MaxPasses, {undefinedValue, SymbolicToken},
                  {undefinedSection}, {undefinedFolders}, {0})
NextActivation ==
    \/ activate
    \/ \E p \in DOMAIN passes : onDidChangeConfiguration(p)
    \/ \E p \in DOMAIN passes : resolveNonEmptyColor(p)
    \/ configUpdateApplied
    \/ configUpdateRejected
    \/ \E p \in DOMAIN passes : activateRegisters(p)
    \/ \E p \in DOMAIN passes : activateWatcherSetupFailed(p)
    \/ \E p \in DOMAIN passes : onDidChangeConfigurationResumes(p)
    \/ \E value \in SettingValues(EMPTY_COLOR_SETTING_NAME) :
          userChangesSetting(EMPTY_COLOR_SETTING_NAME, value)
    \/ onDidChangeConfigurationOther
    \/ NextOn({InitFile}, {})
SpecActivation == InitActivation /\ [][NextActivation]_vars

(***************************************************************************)
(* The activated extension: the provider registered on a pair of           *)
(* ThemeColors, the listeners installed, no call in flight.  The settings  *)
(* and the section are whatever the user's settings files hold then.       *)
(***************************************************************************)
ThemeColors ==
    { [empty |-> e, nonEmpty |-> n] :
        e \in {EMPTY_DECORATION_THEME_ID, SymbolicToken},
        n \in {NON_EMPTY_DECORATION_THEME_ID, SymbolicToken} }

\* the map m with the entry e (<<value>>, or <<>> for none) under key
withEntry(m, key, e) == IF e = <<>> THEN m ELSE mapSet(m, key, e[1])
\* the sections of the settings files: each dedicated token and one token of
\* another consumer, present or not
Sections ==
    { IF e = <<>> /\ n = <<>> /\ o = <<>>
      THEN undefinedSection
      ELSE Section(withEntry(withEntry(withEntry(EmptyMap,
                       EMPTY_DECORATION_THEME_ID, e),
                       NON_EMPTY_DECORATION_THEME_ID, n),
                       OtherToken, o)) :
        e \in {<<>>, <<Literal>>, <<DEFAULT_EMPTY_COLOR>>},
        n \in {<<>>, <<DEFAULT_NON_EMPTY_COLOR>>},
        o \in {<<>>, << <<"#", "0", "0", "0">> >>} }

InitActive(slots, sections, folders, pending) ==
    /\ provider \in [colors : ThemeColors, emptinessCache : {EmptyMap}]
    /\ fs = [uri \in Uris |-> IF uri \in OtherUris THEN 1 ELSE MISSING]
    /\ events = {}
    /\ queries = [q \in 1..1 |-> IdleQuery]
    /\ stale = {}
    /\ emitted = <<>>
    /\ returned = NoReturn
    /\ last = NoHandler
    /\ configured = provider.colors
    /\ extension = "active"
    /\ settings \in [SettingNames -> {undefinedValue, Literal, SymbolicToken}]
    /\ \A name \in SettingNames : settings[name] \in SettingValues(name)
    /\ colorCustomizations \in sections
    /\ workspaceFolders \in folders
    /\ passes = [p \in 1..slots |-> IdlePass]
    /\ updates = <<>>
    /\ pendingChange = pending
    /\ resolved = [n \in SettingNames |-> NoResolution]
    /\ watching = TRUE
    /\ sectionChange = FALSE

(***************************************************************************)
(* SpecReentrancy: the user has changed a color setting of the activated   *)
(* extension and changes nothing more.  The host runs the handlers of the  *)
(* notifications it has queued and completes the config.update calls it    *)
(* has received: each of these steps is taken if it stays possible.        *)
(***************************************************************************)
InitReentrancy == InitActive(MaxPasses, Sections, Folders, TRUE)
NextReentrancy ==
    \/ \E p \in DOMAIN passes : onDidChangeConfiguration(p)
    \/ \E p \in DOMAIN passes : resolveNonEmptyColor(p)
    \/ configUpdateApplied
    \/ \E p \in DOMAIN passes : onDidChangeConfigurationResumes(p)
    \/ onDidChangeConfigurationOther
SpecReentrancy ==
    InitReentrancy /\ [][NextReentrancy]_vars /\ WF_vars(NextReentrancy)

(***************************************************************************)
(* SpecOverlap: the extension activated on unset settings, then changes of *)
(* the two settings with MaxOverlap handler calls at most in flight.       *)
(***************************************************************************)
\* the section activation leaves when both settings are unset
DefaultSection ==
    Section(withEntry(withEntry(EmptyMap,
                EMPTY_DECORATION_THEME_ID, <<DEFAULT_EMPTY_COLOR>>),
                NON_EMPTY_DECORATION_THEME_ID, <<DEFAULT_NON_EMPTY_COLOR>>))
InitOverlap ==
    /\ InitActive(MaxOverlap, {DefaultSection}, {undefinedFolders}, FALSE)
    /\ settings = [n \in SettingNames |-> undefinedValue]
    /\ provider.colors = [empty |-> EMPTY_DECORATION_THEME_ID,
                          nonEmpty |-> NON_EMPTY_DECORATION_THEME_ID]
NextOverlap ==
    \/ \E p \in DOMAIN passes : onDidChangeConfiguration(p)
    \/ \E p \in DOMAIN passes : resolveNonEmptyColor(p)
    \/ configUpdateApplied
    \/ \E p \in DOMAIN passes : onDidChangeConfigurationResumes(p)
    \/ onDidChangeConfigurationOther
    \/ \E name \in SettingNames :
          \E value \in SettingValues(name) : userChangesSetting(name, value)
SpecOverlap == InitOverlap /\ [][NextOverlap]_vars

(***************************************************************************)
(* Properties of the decoration provider.                                  *)
(***************************************************************************)
cache == provider.emptinessCache
isNamedInit(uri) == uri # <<>> /\ uri[Len(uri)] = "__init__.py"
returnedOther == returned.call.uri # <<>> /\ ~isNamedInit(returned.call.uri)
returnedInit == returned.call.pc = "resolved"

\* C1: a call for a file whose basename is not exactly __init__.py returns
\* undefined, whatever the cache holds and whatever the file is; it never
\* reaches the inspector (no such call is ever in flight), and the step
\* leaves the provider, cache included, as it was.
C1_OtherFilesUndecorated ==
    /\ [](/\ \A q \in DOMAIN queries :
                queries[q].pc # "idle" => isNamedInit(queries[q].uri)
          /\ \A k \in DOMAIN cache : isNamedInit(k)
          /\ returnedOther =>
                returned.result = undefined /\ ~returned.call.inspected)
    /\ [][returnedOther' => provider' = provider /\ queries' = queries]_vars

\* C1 witness: a file of another name was answered while the cache held an
\* entry and another call was awaiting the inspector
C1_Witness ==
    /\ returnedOther
    /\ returned.call.uri = <<"__init__.py", "mod.py">>
    /\ DOMAIN cache # {}
    /\ \E q \in DOMAIN queries : queries[q].pc = "statDone"

\* the emptiness a returned call learnt: from its inspection, or the cache
knownEmpty(call) == IF call.inspected THEN call.size = 0 ELSE call.isEmpty

C3_NoStaleHitAfterInvalidation ==
    [][\A q \in DOMAIN queries :
          (queries[q].pc = "idle" /\ queries'[q].pc = "resolved")
              => queries'[q].uri \notin stale]_vars

C9_WatcherInvalidatesThenRefreshes ==
    [][\A uri \in TargetUris :
          (uri \in events /\ uri \notin events') =>
              /\ Len(emitted') = 1
              /\ uri \notin DOMAIN emitted'[1].cache
              /\ uri \notin DOMAIN provider'.emptinessCache
              /\ DOMAIN provider'.emptinessCache = DOMAIN cache \ {uri}
              /\ \A k \in DOMAIN cache \ {uri} :
                    provider'.emptinessCache[k] = cache[k]
              /\ provider'.colors = provider.colors]_vars

\* C9 witness: a watcher handler has run and fired its broadcast while the
\* entry of the other file stayed in the cache
C9_Witness ==
    /\ last.act = "watcher"
    /\ Len(emitted) = 1
    /\ DOMAIN cache = TargetUris \ {last.uri}

\* C10: setColors(colors) replaces both handles, leaves the cache empty and
\* fires exactly one broadcast, for all files, that sees the cache already
\* cleared; the provider's handles are always the ones last given to it,
\* and every decoration returned carries one of them.
C10_SetColors ==
    /\ last.act = "setColors" =>
          /\ provider.colors = last.colors
          /\ cache = EmptyMap
          /\ Len(emitted) = 1
          /\ emitted[1].arg = "undefined"
          /\ emitted[1].cache = EmptyMap
          /\ emitted[1].colors = last.colors
    /\ provider.colors = configured
    /\ returnedInit =>
          returned.result.color =
              IF returned.call.isEmpty THEN configured.empty
              ELSE configured.nonEmpty

\* C10 witness: setColors has run with handles other than the ones before,
\* while a call that had read the cache was awaiting its continuation
C10_Witness ==
    /\ last.act = "setColors"
    /\ last.colors.nonEmpty = SymbolicToken
    /\ \E q \in DOMAIN queries :
          queries[q].pc = "resolved" /\ ~queries[q].inspected

(***************************************************************************)
(* Properties of the color resolver and of the writes to the section.      *)
(***************************************************************************)
LiteralValues == {DEFAULT_EMPTY_COLOR, DEFAULT_NON_EMPTY_COLOR, Literal}
dedicatedEntry(name) == entryOf(colorCustomizations, themeIdOf(name))

\* C5: a resolution of a setting that runs while the resolution before it
\* still stands (nothing has changed the entry under the dedicated token
\* since) and that classifies the same value calls no config.update and
\* returns the ThemeColor the first one returned.
C5_ResolverIdempotent ==
    \A n \in SettingNames :
        (resolved[n].done /\ resolved[n].before # <<>>
                          /\ resolved[n].before[1] = resolved[n].value) =>
            /\ ~resolved[n].called
            /\ resolved[n].color = resolved[n].before[2]

\* C5 witness: the empty color was resolved twice to the same literal and
\* twice to the same token, the second time by the configuration handler
C5_Witness ==
    /\ extension = "active"
    /\ resolved["emptyInitFileColor"].done
    /\ resolved["emptyInitFileColor"].before
         = <<Literal, EMPTY_DECORATION_THEME_ID>>
    /\ resolved["emptyInitFileColor"].value = Literal
    /\ dedicatedEntry("emptyInitFileColor") = <<Literal>>
    /\ resolved["nonEmptyInitFileColor"].done
    /\ resolved["nonEmptyInitFileColor"].before
         = <<SymbolicToken, SymbolicToken>>
    /\ resolved["nonEmptyInitFileColor"].value = SymbolicToken

\* C6: a resolution to a token that is no literal, run while a resolution
\* of the same setting to a literal stood, leaves no entry under the
\* dedicated token and returns the ThemeColor of the token it was given.
C6_LiteralThenSymbolic ==
    \A n \in SettingNames :
        (resolved[n].done /\ resolved[n].before # <<>>
                          /\ resolved[n].before[1] \in LiteralValues
                          /\ resolved[n].value \notin LiteralValues) =>
            /\ dedicatedEntry(n) = <<>>
            /\ resolved[n].color = resolved[n].value

\* C6 witness: the literal was written for the empty color, then removed
\* by the resolution to charts.blue, the token of the other consumer kept
C6_Witness ==
    /\ resolved["emptyInitFileColor"].done
    /\ resolved["emptyInitFileColor"].before
         = <<Literal, EMPTY_DECORATION_THEME_ID>>
    /\ resolved["emptyInitFileColor"].value = SymbolicToken
    /\ resolved["emptyInitFileColor"].called
    /\ dedicatedEntry("emptyInitFileColor") = <<>>
    /\ entryOf(colorCustomizations, OtherToken) # <<>>

\* the step in which the host applies a config.update call
applied == updates # <<>> /\ updates' = Tail(updates)

\* C7, as claimed: a write of the resolver, once applied, leaves every
\* token other than the two dedicated ones with the value it had just
\* before, whatever the other consumers have written.
C7_WriteKeepsOtherTokens ==
    [][applied =>
          \A token \in OtherTokens :
              entryOf(colorCustomizations', token)
                  = entryOf(colorCustomizations, token)]_vars

\* C7, amended: a write of the resolver, once applied, leaves every token
\* other than the two dedicated ones with the value the section held when
\* the resolver read it to make the write.
C7_WriteKeepsOtherTokensRead ==
    [][applied =>
          \A token \in OtherTokens :
              entryOf(colorCustomizations', token)
                  = entryOf(Head(updates).read, token)]_vars

\* C7 witness: a write of the resolver has been applied and the token of
\* the other consumer is in the section, with a dedicated token beside it
C7_Witness ==
    /\ resolved["emptyInitFileColor"].done
    /\ resolved["emptyInitFileColor"].called
    /\ dedicatedEntry("emptyInitFileColor") = <<DEFAULT_EMPTY_COLOR>>
    /\ entryOf(colorCustomizations, OtherToken) = <<<<"#", "f", "f", "f">>>>

\* the strings of whitespace as long as those of Pads
Blanks == UNION { [1..n -> {" ", "\t", "\n"}] : n \in 0..2 }
isBlank(raw) ==
    \/ raw = undefinedValue
    \/ \A i \in 1..Len(raw) : raw[i] \in {" ", "\t", "\n"}
\* # followed by exactly 6 or 8 hex digits, in either case
isLiteral(value) ==
    /\ Len(value) \in {1 + 6, 1 + 8}
    /\ Head(value) = "#"
    /\ \A i \in 2..Len(value) :
          value[i] \in {"0", "1", "2", "3", "4", "5", "6", "7", "8", "9",
                        "a", "b", "c", "d", "e", "f",
                        "A", "B", "C", "D", "E", "F"}

\* the classification of C8, given the value the resolver is said to use
classifiedAs(res, value) ==
    /\ res.value = value
    /\ isLiteral(value) =>
          /\ res.color = EMPTY_DECORATION_THEME_ID
          /\ dedicatedEntry("emptyInitFileColor") = <<value>>
    /\ ~isLiteral(value) =>
          /\ res.color = value
          /\ dedicatedEntry("emptyInitFileColor") = <<>>

\* C8, as claimed: the value used is the raw string of the setting, or the
\* default literal when the setting is unset, empty or all whitespace.
C8_ClassifiesRawValue ==
    LET raw == settings["emptyInitFileColor"]
        res == resolved["emptyInitFileColor"]
    IN res.done =>
          classifiedAs(res, IF isBlank(raw) THEN DEFAULT_EMPTY_COLOR ELSE raw)

\* C8, amended: the value used is the raw string without the whitespace
\* around it, or the default literal when the setting is unset, empty or
\* all whitespace; it is a literal iff it is # followed by exactly 6 or 8
\* hex digits in either case; a literal yields the ThemeColor of the
\* dedicated token and the entry dedicated token -> literal, any other
\* value the ThemeColor of the value itself and no entry; and on every value
\* the resolution runs on until the extension is active.
C8_ClassifiesTrimmedValue ==
    LET raw == settings["emptyInitFileColor"]
        res == resolved["emptyInitFileColor"]
    IN /\ res.done =>
            IF isBlank(raw)
            THEN classifiedAs(res, DEFAULT_EMPTY_COLOR)
            ELSE \E l \in Blanks, r \in Blanks :
                    /\ raw = l \o res.value \o r
                    /\ Head(res.value) \notin {" ", "\t", "\n"}
                    /\ res.value[Len(res.value)] \notin {" ", "\t", "\n"}
                    /\ classifiedAs(res, res.value)
       /\ extension = "activating" => res.done \/ updates # <<>>
       /\ extension = "active" => res.done

\* C8 witness: a literal typed with whitespace around it was resolved to
\* the dedicated token and written without the whitespace
C8_Witness ==
    /\ settings["emptyInitFileColor"]
         = <<" ", "#", "a", "B", "0", "9", "f", "F", "\n">>
    /\ resolved["emptyInitFileColor"].done
    /\ resolved["emptyInitFileColor"].color = EMPTY_DECORATION_THEME_ID
    /\ dedicatedEntry("emptyInitFileColor")
         = << <<"#", "a", "B", "0", "9", "f", "F">> >>
    /\ extension = "active"


(***************************************************************************)
(* Properties of activation and of the failures of the host.               *)
(***************************************************************************)
\* the step is the rejection of a config.update call by the host
updateRejected ==
    /\ updates # <<>>
    /\ updates' = Tail(updates)
    /\ passes'[Head(updates).pass].pc = "idle"

\* C11: when the host rejects a write to the store, at activation or on a
\* later change of a setting, the extension goes on with a provider: the
\* provider that was registered stays registered with colors, and an
\* activation that was under way still registers one.
C11_ProviderAfterRejectedWrite ==
    [][updateRejected =>
          /\ extension' \in {"activating", "active"}
          /\ extension = "active" =>
                /\ provider'.colors = provider.colors
                /\ provider.colors \in InitFileColors
                     \cup {[empty |-> e, nonEmpty |-> n] :
                              e \in {EMPTY_DECORATION_THEME_ID, SymbolicToken},
                              n \in {NON_EMPTY_DECORATION_THEME_ID,
                                     SymbolicToken}}]_vars


\* C12: when the creation of the watcher throws, activation still completes
\* with the provider registered on the resolved colors; from then on the
\* provider answers the queries, a change of a color setting is notified to
\* the handler and reaches setColors, and only the watcher events are absent.
C12_ActivationWithoutWatcher ==
    [][/\ (/\ extension = "activating"
           /\ extension' # "activating"
           /\ ~updateRejected)
          => /\ extension' = "active"
             /\ \E p \in DOMAIN passes :
                   /\ passes[p].activation
                   /\ provider'.colors =
                          [empty |-> passes[p].emptyColor,
                           nonEmpty |-> passes[p].nonEmptyColor]
       /\ (extension' = "active" /\ ~watching')
          => /\ events' = {}
             /\ last'.act # "watcher"
             /\ settings' # settings => pendingChange'
             /\ (\E p \in DOMAIN passes :
                    /\ passes[p].pc = "resolved"
                    /\ ~passes[p].activation
                    /\ passes'[p].pc = "idle")
                => /\ last'.act = "setColors"
                   /\ provider'.colors = last'.colors
             /\ returned'.call.pc = "resolved"
                => returned'.result =
                      FileDecoration(returned'.call.isEmpty, provider.colors)
      ]_vars
\* the watcher is absent and a change of a setting has reached setColors
C12_Witness ==
    /\ extension = "active"
    /\ ~watching
    /\ last.act = "setColors"
    /\ provider.colors = last.colors


\* no resolveDecorationThemeColors call in flight, no config.update call to
\* complete, no notification to deliver
quiescent ==
    /\ \A p \in DOMAIN passes : passes[p].pc = "idle"
    /\ updates = <<>>
    /\ ~pendingChange
    /\ ~sectionChange
\* the step starts a resolveDecorationThemeColors call
passStarts ==
    \E p \in DOMAIN passes : passes[p].pc = "idle" /\ passes'[p].pc # "idle"

\* C13: after one change of a color setting, the handler of the notification
\* of a store write starts no resolution pass and makes no write; a pass
\* starts only for the notification of the user's change, which it consumes;
\* and the extension comes to rest for good: no pass in flight, no write to
\* complete, no notification to deliver.
C13_Reentrancy ==
    /\ [][/\ (sectionChange /\ ~sectionChange')
              => passes' = passes /\ updates' = updates
          /\ passStarts => pendingChange /\ ~pendingChange'
          /\ Len(updates') > Len(updates)
              => \E p \in DOMAIN passes :
                    passes'[p].pc \in {"emptyUpdate", "nonEmptyUpdate"}]_vars
    /\ <>[]quiescent
\* the handler has installed the colors and the notification of the store
\* write its pass made is still to be delivered
C13_Witness ==
    /\ last.act = "setColors"
    /\ sectionChange
    /\ updates = <<>>
    /\ \A p \in DOMAIN passes : passes[p].pc = "idle"


(***************************************************************************)
(* Properties of the emptiness cache.                                      *)
(***************************************************************************)
\* C14: an entry of the emptiness cache is present only if the emptiness of
\* its file was determined since the last invalidation of that file: no
\* entry holds a value that was read before an invalidation of its key
\* (single-entry or whole-cache) that has completed.
C14_EntryDeterminedSinceInvalidation ==
    \A uri \in DOMAIN cache : uri \notin stale


\* C15: a call that the host has cancelled before it completes makes no
\* write to the emptiness cache: the step in which a cancelled call resumes
\* from its inspection leaves the cache as it is.
C15_CancelledCallWritesNothing ==
    [][\A q \in DOMAIN queries :
          (/\ queries[q].cancelled
           /\ queries[q].pc = "statDone"
           /\ queries'[q].pc = "resolved")
          => provider'.emptinessCache = provider.emptinessCache]_vars


\* the step starts the call in slot q
callStarts(q) == queries[q].pc = "idle" /\ queries'[q].pc # "idle"
\* the step resumes the call in slot q from its inspection
callResumes(q) == queries[q].pc = "statDone" /\ queries'[q].pc = "resolved"
\* what the steps of a call do with the cache: a call that finds an entry
\* takes its boolean and calls no inspector, a call that finds none calls
\* the inspector; a successful inspection stores its result; a call that
\* has taken a cached boolean returns the decoration for it
hitOrMiss ==
    \A q \in DOMAIN queries :
        /\ callStarts(q)
           => LET uri == queries'[q].uri
              IN IF mapHas(cache, uri)
                 THEN /\ queries'[q].pc = "resolved"
                      /\ ~queries'[q].inspected
                      /\ queries'[q].isEmpty = cache[uri]
                 ELSE /\ queries'[q].pc = "stat"
                      /\ queries'[q].inspected
        /\ queries[q].pc = "stat" => queries[q].inspected
        /\ (callResumes(q) /\ queries[q].size # MISSING)
           => /\ mapHas(provider'.emptinessCache, queries[q].uri)
              /\ provider'.emptinessCache[queries[q].uri]
                    = statIsEmpty(queries[q].size)
        /\ (queries[q].pc = "resolved" /\ queries'[q].pc = "idle")
           => /\ returned'.call = queries[q]
              /\ returned'.result =
                    FileDecoration(queries[q].isEmpty, provider.colors)
\* the step is an invalidation: a watcher handler or setColors
invalidation == last'.act \in {"watcher", "setColors"}
\* the step handles the failure of an inspection of uri
inspectionFails(uri) ==
    \E q \in DOMAIN queries :
        /\ callResumes(q)
        /\ queries[q].uri = uri
        /\ queries[q].size = MISSING

\* C16 (as claimed): a query that finds an entry returns the decoration for
\* the cached boolean without calling the inspector; the inspector is
\* called only on a miss; a successful inspection stores its result, and
\* the entry stays until an invalidation, so that the next query is a hit.
C16_HitUntilInvalidation ==
    [][/\ hitOrMiss
       /\ \A uri \in DOMAIN cache :
             ~mapHas(provider'.emptinessCache, uri) => invalidation]_vars

\* C16 (amended): as above, but the entry stays until an invalidation or
\* until the failure of an inspection of the same file is handled.
C16_HitUntilInvalidationOrFailure ==
    [][/\ hitOrMiss
       /\ \A uri \in DOMAIN cache :
             ~mapHas(provider'.emptinessCache, uri)
                => invalidation \/ inspectionFails(uri)]_vars
\* a call that found an entry has returned the decoration for it
C16_Witness ==
    /\ returnedInit
    /\ ~returned.call.inspected
    /\ returned.result = FileDecoration(returned.call.isEmpty, provider.colors)


(***************************************************************************)
(* Properties of the store adapter.                                        *)
(***************************************************************************)
\* the step runs resolveColorFromSetting for `stage` in the call of slot p
stageRuns(p, stage) ==
    IF stage.name = EMPTY_COLOR_SETTING_NAME
    THEN /\ passes[p].pc = "idle"
         /\ passes'[p].pc \in {"emptyUpdate", "nonEmpty"}
    ELSE /\ passes[p].pc = "nonEmpty"
         /\ passes'[p].pc \in {"nonEmptyUpdate", "resolved"}
\* the step makes a config.update call
updateCalled == Len(updates') = Len(updates) + 1
\* the config.update call the step makes
calledUpdate == updates'[Len(updates')]

\* C17: when a setting resolves to a symbolic token and the dedicated token
\* is absent from the section, no write is made; when it is present, one
\* write is made of the section without that key, keys and values of the
\* others as they are, or of `undefined` when no key is left, never of an
\* empty object.
C17_RemoveLiteral ==
    [][\A p \in DOMAIN passes : \A stage \in {EmptyStage, NonEmptyStage} :
          (stageRuns(p, stage) /\ ~isHexColor(passes'[p].colorSetting))
          => LET customizations == getCustomizations(colorCustomizations)
                 others == DOMAIN customizations \ {stage.themeId}
             IN IF stage.themeId \notin DOMAIN customizations
                THEN updates' = updates
                ELSE /\ updateCalled
                     /\ calledUpdate.value # Section(EmptyMap)
                     /\ IF others = {}
                        THEN calledUpdate.value = undefinedSection
                        ELSE calledUpdate.value =
                               Section([k \in others |-> customizations[k]])
      ]_vars
\* a removal that leaves no key has called config.update with undefined
C17_Witness ==
    \E i \in DOMAIN updates :
        /\ updates[i].value = undefinedSection
        /\ updates[i].read.present
        /\ DOMAIN updates[i].read.entries = {themeIdOf(updates[i].name)}

\* C18: every config.update call of the store adapter is given the target
\* computed from the workspace folders as they are at the time of the call:
\* Workspace when at least one folder is open, Global when the folders are
\* undefined or a list of length zero.
C18_TargetAtCallTime ==
    [][updateCalled
          => calledUpdate.target =
                IF workspaceFolders # undefinedFolders /\ workspaceFolders >= 1
                THEN "Workspace"
                ELSE "Global"]_vars
\* a call made with a folder open waits while the folders are closed
C18_Witness ==
    \E i \in DOMAIN updates :
        /\ updates[i].target = "Workspace"
        /\ workspaceFolders = undefinedFolders


\* C19: when no provideFileDecoration call is in flight and every change of
\* a file has had its watcher event handled, each entry of the emptiness
\* cache is the emptiness of its file as it is: an inspection that read the
\* file before a change leaves no pre-change value behind.
C19_CacheCoherentAtRest ==
    (/\ \A q \in DOMAIN queries : queries[q].pc = "idle"
     /\ events = {})
    => \A uri \in DOMAIN cache :
          /\ fs[uri] # MISSING
          /\ cache[uri] = statIsEmpty(fs[uri])


(***************************************************************************)
(* Properties of overlapping resolution passes.                            *)
(***************************************************************************)
\* the ThemeColor that resolving the present value of a setting yields
handleOf(stage) ==
    resolveColorFromSetting(settings[stage.name], colorCustomizations,
                            stage.themeId, stage.fallback,
                            workspaceFolders).color

\* C20: once every notification of a change of the color settings has been
\* handled and every resolution pass has completed, the two ThemeColors of
\* the provider are those that resolving the final values of the two
\* settings yields.
C20_LastSettingWins ==
    (extension = "active" /\ quiescent)
    => provider.colors = [empty |-> handleOf(EmptyStage),
                          nonEmpty |-> handleOf(NonEmptyStage)]


\* the provider's ThemeColor for the variant of a stage
providerColor(stage) ==
    IF stage.name = EMPTY_COLOR_SETTING_NAME THEN provider.colors.empty
                                             ELSE provider.colors.nonEmpty

\* C21: once every resolution pass has completed, for each of the two
\* variants the provider's ThemeColor is the dedicated token if and only if
\* the section holds an entry under that token, and that entry is then the
\* literal the setting is configured to; overlapping passes included.
C21_HandleStoreConsistent ==
    (extension = "active" /\ quiescent)
    => \A stage \in {EmptyStage, NonEmptyStage} :
          /\ providerColor(stage) = stage.themeId
                <=> entryOf(colorCustomizations, stage.themeId) # <<>>
          /\ entryOf(colorCustomizations, stage.themeId) # <<>>
                => entryOf(colorCustomizations, stage.themeId)
                     = <<getConfiguredColor(settings[stage.name],
                                            stage.fallback)>>

====
